---- MODULE Spec2Model ----
(***************************************************************************)
(* NeuroGuard patient-record client: the session (AuthProvider), the       *)
(* routes (PrivateRoute / AppRoutes), the Dashboard with its PatientModal, *)
(* the api service's requests in flight, and the record store they reach.  *)
(* A second, older client (script.js) is modelled beside it.               *)
(***************************************************************************)
EXTENDS Integers, Sequences, FiniteSets, TLC

VARIABLES
    auth,          \* AuthProvider state: [user, token, isLoading]
    localStorage,  \* the two durable entries: [token, user]
    route,         \* the HashRouter location
    dash,          \* Dashboard state: [patients, isLoading, error, isModalOpen, editingPatient]
    modal,         \* PatientModal state: [formData, loading, error]
    authNet,       \* login / register requests awaiting their response
    net,           \* patient requests in flight, in the order they were issued
    store,         \* the record store: the sequence of patient records
    nextId,        \* the next identifier the record store assigns
    ev,            \* the last handler that ran and what it did (history)
    hms,           \* script.js: [userRole, patientId, table]
    hmsNet,        \* script.js: its requests in flight
    hmsEv,         \* script.js: the last handler that ran and what it did (history)
    hmsLocal,      \* the localStorage client: [role, patientId, patients]
    hmsLocalEv,    \* the localStorage client: its last handler (history)
    view,          \* the records on screen: cache, search term, what is rendered
    api            \* the api service: the last call, the response it met, how it ended

appVars == <<auth, localStorage, route, dash, modal, authNet, net, store, nextId, ev>>

scriptVars == <<hms, hmsNet, hmsEv>>

localVars == <<hmsLocal, hmsLocalEv>>

viewVars == <<view>>

apiVars == <<api>>

vars == <<appVars, scriptVars, localVars, viewVars, apiVars>>

----------------------------------------------------------------------------
(* Bounds of the model *)

MaxInFlight == 2
MaxAuthInFlight == 2
MaxRecords == 1

----------------------------------------------------------------------------
(* Values *)

Null == "null"

\* The accounts of the credential service; each response carries the account's
\* identity (with its role) and a token issued for it.
Accounts == {"doc", "usr"}

\* The names a patient form can hold: one name, or the empty input
Names == {"a"}

FieldValues == Names \cup {""}

Role(u) ==
    CASE u = "doc" -> "doctor"
      [] u = "usr" -> "user"
      [] OTHER     -> "undefined"

TokenOf(acct) ==
    CASE acct = "doc" -> "tok_doc"
      [] acct = "usr" -> "tok_usr"

Tokens == {TokenOf(a) : a \in Accounts}

AccountOf(t) == CHOOSE a \in Accounts : TokenOf(a) = t

\* JSON.stringify(res.user) and JSON.parse(stored)
Stringify(u) ==
    CASE u = "doc" -> "{doc}"
      [] u = "usr" -> "{usr}"
      [] OTHER     -> "undefined"

Parse(s) ==
    CASE s = "{doc}" -> "doc"
      [] s = "{usr}" -> "usr"
      [] OTHER       -> "SyntaxError"

\* JavaScript's !!x on the values a string-or-null slot can hold
Truthy(x) == x # Null /\ x # ""

----------------------------------------------------------------------------
(* Session: AuthProvider *)

\* A flag that would look at the token alone (a faulty variant of the one below)
AuthenticatedTokenOnly(u, t) == Truthy(t)

AuthenticatedOf(u, t) == Truthy(t) /\ Truthy(u)

isAuthenticated == AuthenticatedOf(auth.user, auth.token)

\* useState initialisers: what a (re)load restores from localStorage
\* An initialiser that would hand back the stored text without parsing it (a
\* faulty variant of the one below)
RestoredUserUnparsed == IF Truthy(localStorage.user) THEN localStorage.user ELSE Null

RestoredUser == IF Truthy(localStorage.user) THEN Parse(localStorage.user) ELSE Null

RestoredToken == localStorage.token

----------------------------------------------------------------------------
(* Routes: AppRoutes and PrivateRoute *)

Routes == {"/login", "/register", "/"}

\* PrivateRoute: the spinner while isLoading, else the Dashboard or a redirect
DashboardShown(a, r) == r = "/" /\ ~a.isLoading /\ AuthenticatedOf(a.user, a.token)

\* A PrivateRoute that would never redirect (a faulty variant of the one below)
RedirectedRouteStaying(a, r) == r

RedirectedRoute(a, r) ==
    IF r = "/" /\ ~a.isLoading /\ ~AuthenticatedOf(a.user, a.token) THEN "/login" ELSE r

Mounted == DashboardShown(auth, route)

----------------------------------------------------------------------------
(* Dashboard and PatientModal state *)

NoPatient == <<>>

INITIAL_FORM == [name |-> ""]

\* History: how the list request the Dashboard issued last has ended, if it has
NoFetch == [status |-> "none", body |-> <<>>]

FetchFailed == [status |-> "failed", body |-> <<>>]

\* The useState defaults of the Dashboard (lastIssued is history, not state)
DashInit ==
    [patients |-> <<>>, isLoading |-> TRUE, error |-> "",
     isModalOpen |-> FALSE, editingPatient |-> NoPatient, lastIssued |-> NoFetch]

ModalInit == [formData |-> INITIAL_FORM, loading |-> FALSE, error |-> ""]

\* const { id, ...rest } = initialData
Rest(p) == [name |-> p.name]

\* PatientModal's useEffect on [initialData, isOpen]
ModalEffect(d0, d1, m) ==
    IF d0.editingPatient # d1.editingPatient \/ d0.isModalOpen # d1.isModalOpen
    THEN [m EXCEPT !.formData = IF d1.editingPatient # NoPatient
                                 THEN Rest(d1.editingPatient[1])
                                 ELSE INITIAL_FORM,
                   !.error = ""]
    ELSE m

canModify(u) == Role(u) = "doctor"

\* What the Dashboard offers a user: the table, and under canModify the Add
\* Patient button and each row's edit and delete buttons
DashboardGranted(u) ==
    {"view"} \cup (IF canModify(u) THEN {"create", "edit", "delete"} ELSE {})

SeqToSet(s) == {s[i] : i \in 1..Len(s)}

RemoveAt(s, i) == SubSeq(s, 1, i - 1) \o SubSeq(s, i + 1, Len(s))

----------------------------------------------------------------------------
(* Requests of the api service *)

Pending == [status |-> "pending", body |-> <<>>]

Request(kind, tok, id, data) ==
    [kind |-> kind, tok |-> tok, id |-> id, data |-> data, live |-> TRUE, resp |-> Pending,
     overtaken |-> FALSE, cause |-> <<>>]

\* History: a list request issued after a write carries what the store
\* answered to that write (the record it created, for a create)
CausedBy(reqs, req) == [k \in 1..Len(reqs) |-> [reqs[k] EXCEPT !.cause = req.resp.body]]

\* History: the list requests issued before request i are marked once request
\* i, issued after them, has completed (requests are kept in the order of issue)
Overtaken(n, i) ==
    [k \in 1..Len(n) |->
        IF k < i /\ n[k].kind = "list" THEN [n[k] EXCEPT !.overtaken = TRUE] ELSE n[k]]

\* What is left of the requests in flight once the Dashboard that issued them is
\* gone: a list response sets state on an unmounted component only (nothing), so
\* the request is dropped; a mutation still reaches the store and its handler
\* still runs, without a component to write to.
Orphaned(n) ==
    LET F[i \in 0..Len(n)] ==
          IF i = 0 THEN <<>>
          ELSE IF n[i].kind = "list" THEN F[i - 1]
          ELSE Append(F[i - 1], [n[i] EXCEPT !.live = FALSE])
    IN F[Len(n)]

\* ev: the handler that ran last (op), how it ended (outcome), the kinds of the
\* requests it issued (sent) and where it showed a failure to the user (shown).
\* Steps no property speaks of (typing, opening the form, navigating, the store
\* answering) leave NoEvent.
NoEvent == [op |-> "none", outcome |-> "", sent |-> <<>>, shown |-> ""]

Event(op, outcome, sent, shown) ==
    [op |-> op, outcome |-> outcome, sent |-> sent, shown |-> shown]

----------------------------------------------------------------------------
(* Rendering after a change of session or location *)

\* The state after React has rendered session a2 at location r, n being the
\* requests in flight: PrivateRoute redirects an unauthenticated "/" to
\* "/login"; a Dashboard that stays on screen keeps its state; one that appears
\* starts from its useState defaults and its useEffect calls fetchPatients();
\* one that disappears loses its state.
Rendered(a2, r, n, wasMounted) ==
    LET r2 == RedirectedRoute(a2, r)
        m2 == DashboardShown(a2, r2)
    IN  /\ auth' = a2
        /\ route' = r2
        /\ IF wasMounted /\ m2
           THEN dash' = dash /\ modal' = modal /\ net' = n
           ELSE IF m2
           THEN /\ Len(Orphaned(n)) < MaxInFlight
                /\ dash' = [DashInit EXCEPT !.lastIssued = Pending]
                /\ modal' = ModalInit
                /\ net' = Append(Orphaned(n), Request("list", a2.token, 0, ""))
           ELSE /\ dash' = DashInit
                /\ modal' = ModalInit
                /\ net' = Orphaned(n)

\* The list request a render issues when it brings the Dashboard up
MountFetch(a2, r, wasMounted) ==
    IF ~wasMounted /\ DashboardShown(a2, RedirectedRoute(a2, r)) THEN <<"list">> ELSE <<>>

----------------------------------------------------------------------------
(* AuthProvider operations *)

\* login and register up to their await: setIsLoading(true) and the request.
\* The two differ in the endpoint only; a request in flight is the account it
\* asks a session for.
AuthCall(fn, acct) ==
    /\ Len(authNet) < MaxAuthInFlight
    /\ authNet' = Append(authNet, acct)
    /\ Rendered([auth EXCEPT !.isLoading = TRUE], route, net, Mounted)
    /\ ev' = NoEvent
    /\ UNCHANGED <<localStorage, store, nextId, scriptVars, localVars, viewVars, apiVars>>

\* login(email, password), called by the page at /login
Login(acct) == route = "/login" /\ AuthCall("login", acct)

\* register(username, email, password, role), called by the page at /register
Register(acct) == route = "/register" /\ AuthCall("register", acct)

\* localStorage after the two setItem calls, the first or the second of which
\* may throw (quota exceeded, storage disabled)
StorageAfterWrites(ls, tok, u, thrown) ==
    CASE thrown = "token" -> ls
      [] thrown = "user"  -> [ls EXCEPT !.token = tok]
      [] OTHER            -> [token |-> tok, user |-> Stringify(u)]

\* The credential service accepted: setUser, setToken, the two setItem calls,
\* and the finally block
AuthResolved(i, thrown) ==
    LET acct == authNet[i]
        a2   == [user |-> acct, token |-> TokenOf(acct), isLoading |-> FALSE]
    IN  /\ authNet' = RemoveAt(authNet, i)
        /\ localStorage' = StorageAfterWrites(localStorage, TokenOf(acct), acct, thrown)
        /\ Rendered(a2, route, net, Mounted)
        /\ ev' = Event("auth", IF thrown = "none" THEN "ok" ELSE "StorageError",
                       MountFetch(a2, route, Mounted), "")
        /\ UNCHANGED <<store, nextId, scriptVars, localVars, viewVars, apiVars>>

AuthResolve(i) == AuthResolved(i, "none")

AuthResolveStorageFailure(i) == \E thrown \in {"token", "user"} : AuthResolved(i, thrown)

\* The credential service rejected (InvalidCredentials, DuplicateAccount) or was
\* not reached: api.login / api.register throws, only the finally block runs
\* A rejection that would also drop the session held (a faulty variant of the
\* one below)
AuthRejectedClearing(a) == [a EXCEPT !.user = Null, !.token = Null, !.isLoading = FALSE]

\* login / register when api.login / api.register throws: the statements after
\* the await are skipped, finally { setIsLoading(false) }
AuthRejected(a) == [a EXCEPT !.isLoading = FALSE]

AuthReject(i) ==
    LET a2 == AuthRejected(auth)
    IN  /\ authNet' = RemoveAt(authNet, i)
        /\ Rendered(a2, route, net, Mounted)
        /\ ev' = Event("auth", "rejected", MountFetch(a2, route, Mounted), "")
        /\ UNCHANGED <<localStorage, store, nextId, scriptVars, localVars, viewVars, apiVars>>

\* A logout that would forget the user alone (a faulty variant of the one below)
LoggedOutUserOnly(a) == [a EXCEPT !.user = Null]

\* logout: setUser(null); setToken(null)
LoggedOut(a) == [a EXCEPT !.user = Null, !.token = Null]

\* A logout that would remove one storage entry per call (a faulty variant of
\* the one below)
StorageAfterLogoutOneEntry(ls) ==
    IF ls.token # Null THEN [ls EXCEPT !.token = Null] ELSE [ls EXCEPT !.user = Null]

\* logout: localStorage.removeItem('token'); localStorage.removeItem('user')
StorageAfterLogout(ls) == [ls EXCEPT !.token = Null, !.user = Null]

\* Layout.handleLogout: logout(), then navigate('/login')
HandleLogout ==
    /\ Mounted
    /\ localStorage' = StorageAfterLogout(localStorage)
    /\ Rendered(LoggedOut(auth), "/login", net, Mounted)
    /\ ev' = Event("logout", "ok", <<>>, "")
    /\ UNCHANGED <<authNet, store, nextId, scriptVars, localVars, viewVars, apiVars>>

\* A page (re)load: memory is rebuilt from localStorage, pending responses are lost
Reload ==
    LET a2 == [user |-> RestoredUser, token |-> RestoredToken, isLoading |-> FALSE]
    IN  /\ authNet' = <<>>
        /\ Rendered(a2, route, <<>>, FALSE)
        /\ ev' = Event("restore", "ok", MountFetch(a2, route, FALSE), "")
        /\ UNCHANGED <<localStorage, store, nextId, scriptVars, localVars, viewVars, apiVars>>

\* The user changes the location (a link, the address bar)
Navigate(r) ==
    /\ r # route
    /\ Rendered(auth, r, net, Mounted)
    /\ ev' = NoEvent
    /\ UNCHANGED <<localStorage, authNet, store, nextId, scriptVars, localVars, viewVars, apiVars>>

----------------------------------------------------------------------------
(* Dashboard: fetchPatients *)

NoTokenError == "No authentication token found"

ConnectError == "Could not connect to the server. Is the Flask backend running?"

\* fetchPatients up to its await, in a closure that captured token tok
FetchPatientsStart(d, tok) ==
    IF ~Truthy(tok)
    THEN [d EXCEPT !.error = NoTokenError, !.isLoading = FALSE]
    ELSE [d EXCEPT !.isLoading = TRUE, !.error = "", !.lastIssued = Pending]

FetchPatientsSent(tok) == IF Truthy(tok) THEN <<Request("list", tok, 0, "")>> ELSE <<>>

Kinds(reqs) == [i \in 1..Len(reqs) |-> reqs[i].kind]

\* A try block that would leave the cache alone (a faulty variant of the one
\* below)
FetchPatientsResolvedKeeping(d, data) == [d EXCEPT !.isLoading = FALSE]

\* fetchPatients after its await: the try, catch and finally blocks
FetchPatientsResolved(d, data) == [d EXCEPT !.patients = data, !.isLoading = FALSE]

\* A catch block that would also drop the cache (a faulty variant of the one below)
FetchPatientsRejectedClearing(d) ==
    [d EXCEPT !.patients = <<>>, !.error = ConnectError, !.isLoading = FALSE]

FetchPatientsRejected(d) == [d EXCEPT !.error = ConnectError, !.isLoading = FALSE]

\* History: request i is the list request issued last (requests are kept in the
\* order of issue, and the one issued last has not settled yet)
IssuedLast(n, i, d) ==
    /\ d.lastIssued = Pending
    /\ \A k \in (i + 1)..Len(n) : n[k].kind # "list"

\* The response of a list request reaches the Dashboard that issued it
FetchPatientsSettle(i) ==
    LET req == net[i]
        ok  == req.resp.status = "ok"
        d1  == IF ok THEN FetchPatientsResolved(dash, req.resp.body)
                     ELSE FetchPatientsRejected(dash)
    IN  /\ req.kind = "list"
        /\ req.resp.status # "pending"
        /\ net' = RemoveAt(IF ok THEN Overtaken(net, i) ELSE net, i)
        /\ dash' = IF IssuedLast(net, i, dash)
                   THEN [d1 EXCEPT !.lastIssued = IF ok THEN req.resp ELSE FetchFailed]
                   ELSE d1
        /\ ev' = Event("fetchPatients", req.resp.status, <<>>, IF ok THEN "" ELSE "banner")
        /\ UNCHANGED <<auth, localStorage, route, modal, authNet, store, nextId, scriptVars, localVars, viewVars, apiVars>>

\* fetchPatients() called after a mutation's await, from the closure (token
\* req.tok) of the render in which the mutation was started. A Dashboard that
\* is gone receives none of the state it sets.
RefetchDash(d, req) == IF req.live THEN FetchPatientsStart(d, req.tok) ELSE d

RefetchNet(n, req) ==
    IF req.live THEN n \o CausedBy(FetchPatientsSent(req.tok), req) ELSE n

----------------------------------------------------------------------------
(* Dashboard: handleDelete *)

\* A handler that would send without looking at the answer to window.confirm
\* (a faulty variant of the one below)
DeleteSentUnconfirmed(tok, id, confirmed) ==
    IF Truthy(tok) THEN <<Request("delete", tok, id, "")>> ELSE <<>>

DeleteSent(tok, id, confirmed) ==
    IF Truthy(tok) /\ confirmed THEN <<Request("delete", tok, id, "")>> ELSE <<>>

\* A click on a row's delete button (rendered for canModify, once the table has
\* loaded; every cached row can be brought into view by the search box), and
\* the answer to window.confirm
HandleDelete(p, confirmed) ==
    LET sent == DeleteSent(auth.token, p.id, confirmed)
    IN  /\ Mounted
        /\ canModify(auth.user)
        /\ ~dash.isLoading
        /\ p \in SeqToSet(dash.patients)
        /\ Len(net) + Len(sent) <= MaxInFlight
        /\ net' = net \o sent
        /\ ev' = Event("handleDelete",
                       IF ~Truthy(auth.token) THEN "noToken"
                       ELSE IF ~confirmed THEN "declined" ELSE "inFlight",
                       Kinds(sent), "")
        /\ UNCHANGED <<auth, localStorage, route, dash, modal, authNet, store, nextId, scriptVars, localVars, viewVars, apiVars>>

\* The response of a delete request: fetchPatients() or the alert
HandleDeleteSettle(i) ==
    LET req == net[i]
        ok  == req.resp.status = "ok"
    IN  /\ req.kind = "delete"
        /\ req.resp.status # "pending"
        /\ net' = IF ok THEN RefetchNet(RemoveAt(net, i), req) ELSE RemoveAt(net, i)
        /\ dash' = IF ok THEN RefetchDash(dash, req) ELSE dash
        /\ ev' = Event("handleDelete", req.resp.status,
                       IF ok THEN Kinds(FetchPatientsSent(req.tok)) ELSE <<>>,
                       IF ok THEN "" ELSE "alert")
        /\ UNCHANGED <<auth, localStorage, route, modal, authNet, store, nextId, scriptVars, localVars, viewVars, apiVars>>

----------------------------------------------------------------------------
(* Dashboard: the PatientModal *)

\* handleAdd: the Add Patient button, rendered for canModify
HandleAdd ==
    LET d1 == [dash EXCEPT !.editingPatient = NoPatient, !.isModalOpen = TRUE]
    IN  /\ Mounted
        /\ canModify(auth.user)
        /\ dash' = d1
        /\ modal' = ModalEffect(dash, d1, modal)
        /\ ev' = NoEvent
        /\ UNCHANGED <<auth, localStorage, route, authNet, net, store, nextId, scriptVars, localVars, viewVars, apiVars>>

\* handleEdit: a row's edit button
HandleEdit(p) ==
    LET d1 == [dash EXCEPT !.editingPatient = <<p>>, !.isModalOpen = TRUE]
    IN  /\ Mounted
        /\ canModify(auth.user)
        /\ ~dash.isLoading
        /\ p \in SeqToSet(dash.patients)
        /\ dash' = d1
        /\ modal' = ModalEffect(dash, d1, modal)
        /\ ev' = NoEvent
        /\ UNCHANGED <<auth, localStorage, route, authNet, net, store, nextId, scriptVars, localVars, viewVars, apiVars>>

\* onClose: the modal's Cancel and X buttons
OnClose ==
    LET d1 == [dash EXCEPT !.isModalOpen = FALSE]
    IN  /\ Mounted
        /\ dash.isModalOpen
        /\ dash' = d1
        /\ modal' = ModalEffect(dash, d1, modal)
        /\ ev' = NoEvent
        /\ UNCHANGED <<auth, localStorage, route, authNet, net, store, nextId, scriptVars, localVars, viewVars, apiVars>>

\* A handler that would write the typed value into the cached record under
\* edit as well (a faulty variant of the one below)
HandleChangeInPlace(v) ==
    /\ Mounted
    /\ dash.isModalOpen
    /\ modal.formData.name # v
    /\ modal' = [modal EXCEPT !.formData.name = v]
    /\ dash' = [dash EXCEPT !.patients =
                  [k \in 1..Len(@) |->
                      IF <<@[k]>> = dash.editingPatient THEN [@[k] EXCEPT !.name = v]
                      ELSE @[k]]]
    /\ ev' = NoEvent
    /\ UNCHANGED <<auth, localStorage, route, authNet, net, store, nextId, scriptVars, localVars, viewVars, apiVars>>

\* handleChange('name', value)
HandleChange(v) ==
    /\ Mounted
    /\ dash.isModalOpen
    /\ modal.formData.name # v
    /\ modal' = [modal EXCEPT !.formData.name = v]
    /\ ev' = NoEvent
    /\ UNCHANGED <<auth, localStorage, route, dash, authNet, net, store, nextId, scriptVars, localVars, viewVars, apiVars>>

\* handleModalSubmit up to its await: the request it issues for draft data
ModalSubmitSent(tok, editing, data) ==
    IF ~Truthy(tok) THEN <<>>
    ELSE IF editing # NoPatient
    THEN <<Request("update", tok, editing[1].id, data.name)>>
    ELSE <<Request("create", tok, 0, data.name)>>

\* The Save button is disabled while the modal's loading flag is set
SubmitEnabled(m) == ~m.loading

\* handleSubmit: the form is submitted (the name input is required)
HandleSubmit ==
    LET sent == ModalSubmitSent(auth.token, dash.editingPatient, modal.formData)
        d1   == [dash EXCEPT !.isModalOpen = FALSE]
    IN  /\ Mounted
        /\ dash.isModalOpen
        /\ SubmitEnabled(modal)
        /\ modal.formData.name # ""
        /\ Len(net) + Len(sent) <= MaxInFlight
        /\ net' = net \o sent
        /\ IF sent # <<>>
           THEN /\ modal' = [modal EXCEPT !.loading = TRUE, !.error = ""]
                /\ dash' = dash
           ELSE \* handleModalSubmit returned at once: onClose(), then finally
                /\ dash' = d1
                /\ modal' = [ModalEffect(dash, d1, [modal EXCEPT !.error = ""])
                               EXCEPT !.loading = FALSE]
        /\ ev' = Event("handleSubmit", IF sent # <<>> THEN "inFlight" ELSE "noToken",
                       Kinds(sent), "")
        /\ UNCHANGED <<auth, localStorage, route, authNet, store, nextId, scriptVars, localVars, viewVars, apiVars>>

SaveError == "Failed to save patient. Please check inputs."

\* The response of a create or update request: handleModalSubmit's
\* fetchPatients() or rethrow, then handleSubmit's onClose() or setError, and
\* its finally block
\* A handler that would close the form however the save ended (a faulty
\* variant of the one below)
AfterOnSubmitAlwaysClosing(d, ok) == [d EXCEPT !.isModalOpen = FALSE]

\* handleSubmit after `await onSubmit(formData)`: onClose() when it resolved,
\* the catch block (which leaves the Dashboard alone) when it threw
AfterOnSubmit(d, ok) == IF ok THEN [d EXCEPT !.isModalOpen = FALSE] ELSE d

HandleSubmitSettle(i) ==
    LET req == net[i]
        ok  == req.resp.status = "ok"
        d1  == IF ok THEN RefetchDash(dash, req) ELSE dash
        d2  == AfterOnSubmit(d1, ok)
    IN  /\ req.kind \in {"create", "update"}
        /\ req.resp.status # "pending"
        /\ net' = IF ok THEN RefetchNet(RemoveAt(net, i), req) ELSE RemoveAt(net, i)
        /\ IF ~req.live
           THEN dash' = dash /\ modal' = modal
           ELSE IF ok
           THEN /\ dash' = d2
                /\ modal' = [ModalEffect(dash, d2, modal) EXCEPT !.loading = FALSE]
           ELSE /\ dash' = d2
                /\ modal' = [ModalEffect(dash, d2, modal)
                               EXCEPT !.error = SaveError, !.loading = FALSE]
        /\ ev' = Event("handleSubmit", req.resp.status,
                       IF ok THEN Kinds(FetchPatientsSent(req.tok)) ELSE <<>>,
                       IF ok THEN ""
                       ELSE IF ~req.live THEN "unmounted"
                       ELSE IF dash.isModalOpen THEN "modal" ELSE "hidden")
        /\ UNCHANGED <<auth, localStorage, route, authNet, store, nextId, scriptVars, localVars, viewVars, apiVars>>

----------------------------------------------------------------------------
(* The record store behind the API *)

AllKinds == {"list", "create", "update", "delete"}

\* The store's own copy of the policy: what the role of a credential may do
ServerPolicy(role) ==
    CASE role = "doctor" -> AllKinds
      [] role = "user"   -> {"list"}
      [] OTHER           -> {}

HasId(s, id) == \E k \in 1..Len(s) : s[k].id = id

\* The answers the store can give to a request, by the interface of the store:
\* a rejected credential at any time (the role is not allowed the operation, or
\* the token has expired), and otherwise what the request asks of the records
\* held. Of the failures that reach the client in one and the same way (a
\* thrown Error) each kind of request keeps one besides Unauthorized.
ServerOutcomes(req) ==
    {"Unauthorized"}
    \cup (IF req.kind = "list" THEN {"Unreachable"} ELSE {})
    \cup (IF req.kind \notin ServerPolicy(Role(AccountOf(req.tok))) THEN {}
          ELSE CASE req.kind = "list"   -> {"ok"}
                 [] req.kind = "create" ->
                      {"ValidationFailed"} \cup (IF nextId <= MaxRecords THEN {"ok"} ELSE {})
                 [] req.kind = "update" ->
                      IF HasId(store, req.id) THEN {"ok"} ELSE {"NotFound"}
                 [] req.kind = "delete" ->
                      IF HasId(store, req.id) THEN {"ok"} ELSE {"NotFound"})

Updated(s, id, name) ==
    [k \in 1..Len(s) |-> IF s[k].id = id THEN [s[k] EXCEPT !.name = name] ELSE s[k]]

Deleted(s, id) ==
    LET F[k \in 0..Len(s)] ==
          IF k = 0 THEN <<>>
          ELSE IF s[k].id = id THEN F[k - 1] ELSE Append(F[k - 1], s[k])
    IN F[Len(s)]

StoreAfter(req, status) ==
    IF status # "ok" THEN store
    ELSE CASE req.kind = "list"   -> store
           [] req.kind = "create" -> Append(store, [id |-> nextId, name |-> req.data])
           [] req.kind = "update" -> Updated(store, req.id, req.data)
           [] req.kind = "delete" -> Deleted(store, req.id)

\* The store answers request i; the answer is then on its way to the client
ServerHandle(i) ==
    \E status \in ServerOutcomes(net[i]) :
        LET req == net[i]
        IN  /\ req.resp.status = "pending"
            /\ store' = StoreAfter(req, status)
            /\ nextId' = IF status = "ok" /\ req.kind = "create" THEN nextId + 1 ELSE nextId
            /\ net' = [net EXCEPT ![i].resp =
                         [status |-> status,
                          body |-> IF status # "ok" THEN <<>>
                                   ELSE IF req.kind = "list" THEN store
                                   ELSE IF req.kind = "create"
                                   THEN <<[id |-> nextId, name |-> req.data]>>
                                   ELSE <<>>]]
            /\ ev' = NoEvent
            /\ UNCHANGED <<auth, localStorage, route, dash, modal, authNet, scriptVars, localVars, viewVars, apiVars>>

----------------------------------------------------------------------------
(* script.js: the older client, with its own roles and permissions table *)

ScriptRoles == {"administrator", "doctor", "viewer"}

\* const permissions = {...}
permissions(role) ==
    CASE role = "administrator" ->
           [canView |-> TRUE, canAdd |-> TRUE, canEdit |-> TRUE, canDelete |-> TRUE]
      [] role = "doctor" ->
           [canView |-> TRUE, canAdd |-> TRUE, canEdit |-> FALSE, canDelete |-> FALSE]
      [] role = "viewer" ->
           [canView |-> TRUE, canAdd |-> FALSE, canEdit |-> FALSE, canDelete |-> FALSE]

\* getCurrentPermissions: permissions[userRole] || permissions.viewer
getCurrentPermissions(role) ==
    IF role \in ScriptRoles THEN permissions(role) ELSE permissions("viewer")

\* The operations a role's entry of the table allows
ScriptGranted(role) ==
    LET p == getCurrentPermissions(role)
    IN  (IF p.canView THEN {"view"} ELSE {})
        \cup (IF p.canAdd THEN {"create"} ELSE {})
        \cup (IF p.canEdit THEN {"edit"} ELSE {})
        \cup (IF p.canDelete THEN {"delete"} ELSE {})

HmsRequest(purpose, role) == [purpose |-> purpose, role |-> role]

\* fetchAndRenderPatients up to its await: the loading row, then the GET; the
\* permissions it will render buttons for are those of the role at the call
RenderStart(h, n) ==
    IF ~getCurrentPermissions(h.userRole).canView
    THEN [hms |-> [h EXCEPT !.table = [state |-> "denied", perms |-> Null]], net |-> n]
    ELSE [hms |-> [h EXCEPT !.table = [state |-> "loading", perms |-> Null]],
          net |-> Append(n, HmsRequest("render", h.userRole))]

\* updateUIToReflectRole shows the form tab for canAdd or canEdit
FormTabShown(role) ==
    getCurrentPermissions(role).canAdd \/ getCurrentPermissions(role).canEdit

HmsInit ==
    [userRole |-> Null, patientId |-> "", table |-> [state |-> "empty", perms |-> Null]]

\* The login form's handler once /login has answered ok with result.role:
\* the role is stored and updateUIToReflectRole() renders the table
ScriptLogin(role) ==
    LET r == RenderStart([hms EXCEPT !.userRole = role], hmsNet)
    IN  /\ hms.userRole = Null
        /\ Len(hmsNet) < MaxInFlight
        /\ hms' = r.hms
        /\ hmsNet' = r.net
        /\ hmsEv' = Event("login", "ok", <<"GET">>, "")
        /\ UNCHANGED <<appVars, localVars, viewVars, apiVars>>

\* The logout button: the role is cleared and the dashboard hidden; the form
\* and the table keep what they hold
ScriptLogout ==
    /\ hms.userRole # Null
    /\ hms' = [hms EXCEPT !.userRole = Null]
    /\ hmsNet' = hmsNet
    /\ hmsEv' = Event("logout", "ok", <<>>, "")
    /\ UNCHANGED <<appVars, localVars, viewVars, apiVars>>

\* The search button: fetchAndRenderPatients(query)
ScriptSearch ==
    LET r == RenderStart(hms, hmsNet)
    IN  /\ hms.userRole # Null
        /\ Len(hmsNet) < MaxInFlight
        /\ hms' = r.hms
        /\ hmsNet' = r.net
        /\ hmsEv' = Event("search", "ok", <<"GET">>, "")
        /\ UNCHANGED <<appVars, localVars, viewVars, apiVars>>

\* handleFormSubmission up to its await
HandleFormSubmission ==
    LET isUpdate  == hms.patientId # ""
        userPerms == getCurrentPermissions(hms.userRole)
        denied    == (isUpdate /\ ~userPerms.canEdit) \/ (~isUpdate /\ ~userPerms.canAdd)
    IN  /\ hms.userRole # Null
        /\ FormTabShown(hms.userRole)
        /\ denied \/ Len(hmsNet) < MaxInFlight
        /\ hms' = hms
        /\ hmsNet' = IF denied THEN hmsNet
                     ELSE Append(hmsNet, HmsRequest(IF isUpdate THEN "PUT" ELSE "POST",
                                                    hms.userRole))
        /\ hmsEv' = IF denied
                    THEN Event("handleFormSubmission", "PermissionDenied", <<>>, "alert")
                    ELSE Event("handleFormSubmission", "inFlight",
                               <<IF isUpdate THEN "PUT" ELSE "POST">>, "")
        /\ UNCHANGED <<appVars, localVars, viewVars, apiVars>>

\* deletePatient up to its await: a click on a Discharge button of the table
\* (rendered for the permissions the table was fetched with), and the answer
\* to confirm()
ScriptDeletePatient(confirmed) ==
    LET denied == ~getCurrentPermissions(hms.userRole).canDelete
        sends  == ~denied /\ confirmed
    IN  /\ hms.userRole # Null
        /\ hms.table.state = "rows"
        /\ getCurrentPermissions(hms.table.perms).canDelete
        /\ sends => Len(hmsNet) < MaxInFlight
        /\ hms' = hms
        /\ hmsNet' = IF sends THEN Append(hmsNet, HmsRequest("DELETE", hms.userRole))
                     ELSE hmsNet
        /\ hmsEv' = IF denied
                    THEN Event("deletePatient", "PermissionDenied", <<>>, "alert")
                    ELSE IF confirmed
                    THEN Event("deletePatient", "inFlight", <<"DELETE">>, "")
                    ELSE Event("deletePatient", "declined", <<>>, "")
        /\ UNCHANGED <<appVars, localVars, viewVars, apiVars>>

\* populateFormForEdit up to its await: a click on a View/Edit button
PopulateFormForEdit ==
    LET denied == ~getCurrentPermissions(hms.userRole).canEdit
    IN  /\ hms.userRole # Null
        /\ hms.table.state = "rows"
        /\ getCurrentPermissions(hms.table.perms).canEdit
        /\ denied \/ Len(hmsNet) < MaxInFlight
        /\ hms' = hms
        /\ hmsNet' = IF denied THEN hmsNet
                     ELSE Append(hmsNet, HmsRequest("edit", hms.userRole))
        /\ hmsEv' = IF denied
                    THEN Event("populateFormForEdit", "PermissionDenied", <<>>, "alert")
                    ELSE Event("populateFormForEdit", "inFlight", <<"GET">>, "")
        /\ UNCHANGED <<appVars, localVars, viewVars, apiVars>>

\* resetPatientForm by the Cancel Edit button
ResetPatientForm ==
    /\ hms.userRole # Null
    /\ hms.patientId # ""
    /\ hms' = [hms EXCEPT !.patientId = ""]
    /\ hmsNet' = hmsNet
    /\ hmsEv' = NoEvent
    /\ UNCHANGED <<appVars, localVars, viewVars, apiVars>>

\* A response arrives (ok, or not ok / no response at all) and the handler that
\* awaited it runs on
ScriptSettle(i, ok) ==
    LET req  == hmsNet[i]
        rest == RemoveAt(hmsNet, i)
        r    == RenderStart([hms EXCEPT !.patientId =
                                IF req.purpose = "DELETE" THEN @ ELSE ""], rest)
    IN  /\ UNCHANGED <<appVars, localVars, viewVars, apiVars>>
        /\ CASE req.purpose = "render" ->
               /\ hms' = [hms EXCEPT !.table =
                            IF ok THEN [state |-> "rows", perms |-> req.role]
                                  ELSE [state |-> "error", perms |-> Null]]
               /\ hmsNet' = rest
               /\ hmsEv' = Event("fetchAndRenderPatients", IF ok THEN "ok" ELSE "failed",
                                 <<>>, IF ok THEN "" ELSE "table")
             [] req.purpose = "edit" ->
               /\ hms' = IF ok THEN [hms EXCEPT !.patientId = "P1"] ELSE hms
               /\ hmsNet' = rest
               /\ hmsEv' = Event("populateFormForEdit", IF ok THEN "ok" ELSE "failed",
                                 <<>>, IF ok THEN "" ELSE "alert")
             [] req.purpose \in {"PUT", "POST", "DELETE"} ->
               /\ hms' = IF ok THEN r.hms ELSE hms
               /\ hmsNet' = IF ok THEN r.net ELSE rest
               /\ hmsEv' = Event(IF req.purpose = "DELETE" THEN "deletePatient"
                                 ELSE "handleFormSubmission",
                                 IF ok THEN "ok" ELSE "failed",
                                 IF ok THEN <<"GET">> ELSE <<>>, "alert")

NextScript ==
    \/ \E role \in ScriptRoles : ScriptLogin(role)
    \/ ScriptLogout
    \/ ScriptSearch
    \/ HandleFormSubmission
    \/ \E confirmed \in BOOLEAN : ScriptDeletePatient(confirmed)
    \/ PopulateFormForEdit
    \/ ResetPatientForm
    \/ \E i \in 1..Len(hmsNet), ok \in BOOLEAN : ScriptSettle(i, ok)

----------------------------------------------------------------------------
(* The localStorage client: the same pages with the records kept in the     *)
(* browser (hms_patients) and every handler synchronous                     *)

MaxLocalId == 3

NoId == 0

LocalUsers == {"admin", "doctor", "user"}

\* const userRoles = {...}: the role of a user id
userRoles(userId) ==
    CASE userId = "admin"  -> "administrator"
      [] userId = "doctor" -> "doctor"
      [] userId = "user"   -> "viewer"

\* permissions[getCurrentRole()] || permissions.viewer
LocalPermissions(role) ==
    CASE role = "administrator" ->
           [canView |-> TRUE, canAdd |-> TRUE, canEdit |-> TRUE, canDelete |-> TRUE]
      [] role = "doctor" ->
           [canView |-> TRUE, canAdd |-> TRUE, canEdit |-> FALSE, canDelete |-> FALSE]
      [] OTHER ->
           [canView |-> TRUE, canAdd |-> FALSE, canEdit |-> FALSE, canDelete |-> FALSE]

\* The operations a role's entry of the table allows
LocalGranted(role) ==
    LET p == LocalPermissions(role)
    IN  (IF p.canView THEN {"view"} ELSE {})
        \cup (IF p.canAdd THEN {"create"} ELSE {})
        \cup (IF p.canEdit THEN {"edit"} ELSE {})
        \cup (IF p.canDelete THEN {"delete"} ELSE {})

\* initializeSampleData: the two sample records (P00123, P00456), their
\* numbers kept in order
SampleData == <<[id |-> 1, name |-> CHOOSE x \in Names : TRUE],
                [id |-> 2, name |-> CHOOSE x \in Names : TRUE]>>

\* generatePatientId: one more than the number of the last record's id
generatePatientId(patients) ==
    IF Len(patients) = 0 THEN 1 ELSE patients[Len(patients)].id + 1

\* patients.map((p) => (p.id === newRecord.id ? newRecord : p))
LocalUpdated(patients, newRecord) ==
    [k \in 1..Len(patients) |->
        IF patients[k].id = newRecord.id THEN newRecord ELSE patients[k]]

HmsLocalInit == [role |-> Null, patientId |-> NoId, patients |-> SampleData]

\* The last handler of the localStorage client: what it told the user
\* (outcome) and the record it handed to savePatients, if any
NoLocalEvent == [op |-> "none", outcome |-> "", record |-> <<>>]

LocalEvent(op, outcome, record) == [op |-> op, outcome |-> outcome, record |-> record]

\* The login form's handler with a user id and its password
LocalLogin(userId) ==
    /\ hmsLocal.role = Null
    /\ hmsLocal' = [hmsLocal EXCEPT !.role = userRoles(userId)]
    /\ hmsLocalEv' = LocalEvent("login", "ok", <<>>)
    /\ UNCHANGED <<appVars, scriptVars, viewVars, apiVars>>

\* The logout button: the form keeps what it holds
LocalLogout ==
    /\ hmsLocal.role # Null
    /\ hmsLocal' = [hmsLocal EXCEPT !.role = Null]
    /\ hmsLocalEv' = LocalEvent("logout", "ok", <<>>)
    /\ UNCHANGED <<appVars, scriptVars, viewVars, apiVars>>

\* populateFormForEdit: a click on a row's View/Edit button (rendered under
\* canEdit)
LocalPopulateFormForEdit(id) ==
    /\ hmsLocal.role # Null
    /\ LocalPermissions(hmsLocal.role).canEdit
    /\ HasId(hmsLocal.patients, id)
    /\ hmsLocal' = [hmsLocal EXCEPT !.patientId = id]
    /\ hmsLocalEv' = LocalEvent("populateFormForEdit", "ok", <<>>)
    /\ UNCHANGED <<appVars, scriptVars, viewVars, apiVars>>

\* resetPatientForm by the Cancel Edit button
LocalResetPatientForm ==
    /\ hmsLocal.role # Null
    /\ hmsLocal.patientId # NoId
    /\ hmsLocal' = [hmsLocal EXCEPT !.patientId = NoId]
    /\ hmsLocalEv' = NoLocalEvent
    /\ UNCHANGED <<appVars, scriptVars, viewVars, apiVars>>

\* handleFormSubmission with the name typed into the form
LocalHandleFormSubmission(name) ==
    LET userPerms == LocalPermissions(hmsLocal.role)
        isUpdate  == hmsLocal.patientId # NoId
        denied    == (isUpdate /\ ~userPerms.canEdit) \/ (~isUpdate /\ ~userPerms.canAdd)
        newRecord == [id |-> IF isUpdate THEN hmsLocal.patientId
                             ELSE generatePatientId(hmsLocal.patients),
                      name |-> name]
    IN  /\ hmsLocal.role # Null
        /\ userPerms.canAdd \/ userPerms.canEdit
        /\ denied \/ newRecord.id <= MaxLocalId
        /\ hmsLocal' =
             IF denied THEN hmsLocal
             ELSE [hmsLocal EXCEPT
                     !.patients = IF isUpdate THEN LocalUpdated(@, newRecord)
                                  ELSE Append(@, newRecord),
                     !.patientId = NoId]
        /\ hmsLocalEv' =
             IF denied THEN LocalEvent("handleFormSubmission", "PermissionDenied", <<>>)
             ELSE LocalEvent("handleFormSubmission",
                             IF isUpdate THEN "updated successfully"
                             ELSE "added successfully", <<newRecord>>)
        /\ UNCHANGED <<appVars, scriptVars, viewVars, apiVars>>

\* deletePatient: a click on a row's Discharge button (rendered under
\* canDelete) and the answer to confirm()
LocalDeletePatient(id, confirmed) ==
    /\ hmsLocal.role # Null
    /\ LocalPermissions(hmsLocal.role).canDelete
    /\ HasId(hmsLocal.patients, id)
    /\ hmsLocal' = IF confirmed THEN [hmsLocal EXCEPT !.patients = Deleted(@, id)]
                   ELSE hmsLocal
    /\ hmsLocalEv' = LocalEvent("deletePatient",
                                IF confirmed THEN "discharged" ELSE "declined", <<>>)
    /\ UNCHANGED <<appVars, scriptVars, viewVars, apiVars>>

NextLocal ==
    \/ \E userId \in LocalUsers : LocalLogin(userId)
    \/ LocalLogout
    \/ \E id \in 1..MaxLocalId : LocalPopulateFormForEdit(id)
    \/ LocalResetPatientForm
    \/ \E name \in Names : LocalHandleFormSubmission(name)
    \/ \E id \in 1..MaxLocalId, confirmed \in BOOLEAN : LocalDeletePatient(id, confirmed)

----------------------------------------------------------------------------
(* What the Dashboard computes from the cache at every render: the filtered *)
(* rows and the statistics; and the rows script.js renders for a query      *)

MaxCache == 3

\* Text is a sequence of characters
Uppercase == <<"A", "B", "F", "M", "Z">>

Lowercase == <<"a", "b", "f", "m", "z">>

\* String.prototype.toLowerCase
toLowerCase(str) ==
    [i \in 1..Len(str) |->
        IF \E k \in 1..Len(Uppercase) : Uppercase[k] = str[i]
        THEN Lowercase[CHOOSE k \in 1..Len(Uppercase) : Uppercase[k] = str[i]]
        ELSE str[i]]

\* String.prototype.includes
includes(str, search) ==
    \E i \in 0..(Len(str) - Len(search)) : SubSeq(str, i + 1, i + Len(search)) = search

\* The records the store can return: an opaque text id, a name, a gender, age,
\* avg_glucose_level, stroke (0 | 1) and the optional stroke_prediction (<<0>>,
\* <<1>>, or <<>> when the field is absent)
ViewRecords ==
    { [id |-> <<"1">>, name |-> <<"A", "l">>, gender |-> <<"M", "a", "l", "e">>,
       age |-> 40, avg_glucose_level |-> 90, stroke |-> 1, stroke_prediction |-> <<0>>],
      [id |-> <<"B", "2">>, name |-> <<"Z", "o">>, gender |-> <<"F", "e", "m", "a", "l", "e">>,
       age |-> 60, avg_glucose_level |-> 100, stroke |-> 0, stroke_prediction |-> <<1>>],
      [id |-> <<"3">>, name |-> <<"B", "e", "a">>, gender |-> <<"F", "e", "m", "a", "l", "e">>,
       age |-> 50, avg_glucose_level |-> 80, stroke |-> 0, stroke_prediction |-> <<>>] }

\* What can be typed into the search box
SearchTerms == {<<>>, <<"a">>, <<"A", "L">>, <<"b">>, <<"f">>, <<"1">>, <<"x">>}

\* Array.prototype.filter: the elements that satisfy keep, in order
Filter(seq, keep(_)) ==
    LET F[k \in 0..Len(seq)] ==
          IF k = 0 THEN <<>>
          ELSE IF keep(seq[k]) THEN Append(F[k - 1], seq[k]) ELSE F[k - 1]
    IN F[Len(seq)]

\* A filter that would ask for the whole name, gender or id (a faulty variant
\* of the one below)
filteredPatientsExact(patients, searchTerm) ==
    LET keep(p) == \/ toLowerCase(p.name) = toLowerCase(searchTerm)
                   \/ toLowerCase(p.gender) = toLowerCase(searchTerm)
                   \/ p.id = searchTerm
    IN Filter(patients, keep)

\* Dashboard: const filteredPatients = patients.filter(...)
filteredPatients(patients, searchTerm) ==
    LET keep(p) == \/ includes(toLowerCase(p.name), toLowerCase(searchTerm))
                   \/ includes(toLowerCase(p.gender), toLowerCase(searchTerm))
                   \/ includes(p.id, searchTerm)
    IN Filter(patients, keep)

\* script.js fetchAndRenderPatients: the client-side filtering of the rows
ScriptFilteredPatients(patients, searchQuery) ==
    LET keep(p) == \/ includes(toLowerCase(p.name), toLowerCase(searchQuery))
                   \/ includes(toLowerCase(p.id), toLowerCase(searchQuery))
    IN Filter(patients, keep)

\* patients.filter(...).length
CountWhere(patients, keep(_)) == Len(Filter(patients, keep))

\* patients.reduce((acc, p) => acc + p.avg_glucose_level, 0)
SumGlucose(patients) ==
    LET F[k \in 0..Len(patients)] ==
          IF k = 0 THEN 0 ELSE F[k - 1] + patients[k].avg_glucose_level
    IN F[Len(patients)]

\* patients.reduce((acc, p) => acc + p.age, 0)
SumAge(patients) ==
    LET F[k \in 0..Len(patients)] == IF k = 0 THEN 0 ELSE F[k - 1] + patients[k].age
    IN F[Len(patients)]

\* The text toFixed gives for a value that is not a number
NaN == <<>>

\* (a / b).toFixed(1): the text of the quotient rounded to tenths, held as the
\* number of tenths; 0 / 0 is NaN
DividedToFixed1(a, b) == IF b = 0 THEN NaN ELSE <<(20 * a + b) \div (2 * b)>>

\* A divisor that would be the bare length (a faulty variant of the one below)
DivisorLength(patients) == Len(patients)

\* (patients.length || 1)
Divisor(patients) == IF Len(patients) # 0 THEN Len(patients) ELSE 1

\* const strokeStats = [...]: the two slices of the Stroke Distribution chart
strokeStats(patients) ==
    LET isStroke(p)   == p.stroke = 1 \/ p.stroke_prediction = <<1>>
        isNoStroke(p) == \/ p.stroke = 0
                         \/ p.stroke_prediction = <<0>>
                         \/ p.stroke_prediction \in {<<>>, <<0>>}
    IN [Stroke |-> CountWhere(patients, isStroke),
        NoStroke |-> CountWhere(patients, isNoStroke)]

\* The header card 'Stroke Risk Observed'
StrokeRiskObserved(patients) ==
    LET observed(p) == p.stroke = 1
    IN CountWhere(patients, observed)

\* One render: the header cards, the chart data and the rows of the table
Screen(patients, searchTerm) ==
    [total      |-> Len(patients),
     avgGlucose |-> DividedToFixed1(SumGlucose(patients), Divisor(patients)),
     avgAge     |-> DividedToFixed1(SumAge(patients), Divisor(patients)),
     observed   |-> StrokeRiskObserved(patients),
     strokeStats |-> strokeStats(patients),
     rows       |-> filteredPatients(patients, searchTerm),
     scriptRows |-> ScriptFilteredPatients(patients, searchTerm)]

Viewed(patients, searchTerm) ==
    [patients |-> patients, searchTerm |-> searchTerm, screen |-> Screen(patients, searchTerm)]

\* useState<Patient[]>([]) and useState('')
ViewInit == Viewed(<<>>, <<>>)

\* setPatients(data) with the list a fetch returned: one record more, or one
\* record fewer, than the cache holds
SetPatients ==
    /\ \E data \in {Append(view.patients, r) : r \in ViewRecords}
                   \cup {RemoveAt(view.patients, i) : i \in 1..Len(view.patients)} :
          /\ Len(data) <= MaxCache
          /\ view' = Viewed(data, view.searchTerm)
    /\ UNCHANGED <<appVars, scriptVars, localVars, apiVars>>

\* onChange of the search box: setSearchTerm(e.target.value)
SetSearchTerm(value) ==
    /\ value # view.searchTerm
    /\ view' = Viewed(view.patients, value)
    /\ UNCHANGED <<appVars, scriptVars, localVars, apiVars>>

NextView ==
    \/ SetPatients
    \/ \E value \in SearchTerms : SetSearchTerm(value)

----------------------------------------------------------------------------
(* The api service: one call of one of its six functions against a response *)

ApiFunctions ==
    {"loginUser", "registerUser", "fetchPatients", "addPatient", "updatePatient",
     "deletePatient"}

\* The texts a response body can hold: no JSON at all, the JSON null, an object
\* without an error field, with an empty one, with a message, and a payload
Bodies ==
    {"<html>", "null", "{}", "{\"error\":\"\"}", "{\"error\":\"Invalid credentials\"}",
     "{\"token\":\"t\",\"user\":{}}"}

\* What fetch() can hand to the call: a response with its ok flag and body, or
\* no response at all (fetch rejects)
NoResponse == [arrived |-> FALSE, ok |-> FALSE, body |-> ""]

Responses ==
    {[arrived |-> TRUE, ok |-> ok, body |-> body] : ok \in BOOLEAN, body \in Bodies}
    \cup {NoResponse}

\* How a call ends: it throws (the promise rejects with an Error), or it returns
\* a value
Thrown(message) == [threw |-> TRUE, error |-> message, value |-> <<>>]

Returned(v) == [threw |-> FALSE, error |-> "", value |-> <<v>>]

\* res.json(): rejects (SyntaxError) on a body that is not JSON
JsonRejects(body) == body = "<html>"

\* res.json().catch(() => ({})): the parsed body, or the empty object
JsonOrEmpty(body) == IF JsonRejects(body) THEN "{}" ELSE body

\* err.error of a parsed body (undefined and '' are both falsy: "")
ErrorField(parsed) ==
    IF parsed = "{\"error\":\"Invalid credentials\"}" THEN "Invalid credentials" ELSE ""

\* A check that would throw only when the error body can be parsed (a faulty
\* variant of the one below)
ResponseCheckParsedOnly(res, fallback) ==
    IF res.ok \/ JsonRejects(res.body) THEN <<>>
    ELSE LET err == JsonOrEmpty(res.body)
         IN  IF err = "null" THEN <<Thrown("TypeError")>>
             ELSE IF ErrorField(err) # "" THEN <<Thrown(ErrorField(err))>>
             ELSE <<Thrown(fallback)>>

\* if (!res.ok) { const err = await res.json().catch(() => ({}));
\*                throw new Error(err.error || fallback); }
\* <<>> when the call goes on, else the error thrown (reading .error of a body
\* that parsed to null throws a TypeError)
ResponseCheck(res, fallback) ==
    IF res.ok THEN <<>>
    ELSE LET err == JsonOrEmpty(res.body)
         IN  IF err = "null" THEN <<Thrown("TypeError")>>
             ELSE IF ErrorField(err) # "" THEN <<Thrown(ErrorField(err))>>
             ELSE <<Thrown(fallback)>>

\* return res.json() / const data = await res.json(); return data
ReturnJson(res) ==
    IF JsonRejects(res.body) THEN Thrown("SyntaxError") ELSE Returned(res.body)

\* A call from its fetch on: the rejected fetch, the check, then the given end
AfterFetch(res, fallback, end) ==
    IF ~res.arrived THEN Thrown("Failed to fetch")
    ELSE IF ResponseCheck(res, fallback) # <<>> THEN ResponseCheck(res, fallback)[1]
    ELSE end

loginUser(res) == AfterFetch(res, "Failed to login", ReturnJson(res))

registerUser(res) == AfterFetch(res, "Failed to register", ReturnJson(res))

fetchPatients(token, res) ==
    IF token = "" THEN Thrown("No token provided")
    ELSE AfterFetch(res, "Failed to fetch patients", ReturnJson(res))

addPatient(token, res) == AfterFetch(res, "Failed to add patient", ReturnJson(res))

updatePatient(token, res) == AfterFetch(res, "Failed to update patient", ReturnJson(res))

deletePatient(token, res) == AfterFetch(res, "Failed to delete patient", Returned("true"))

ApiResult(fn, token, res) ==
    CASE fn = "loginUser"     -> loginUser(res)
      [] fn = "registerUser"  -> registerUser(res)
      [] fn = "fetchPatients" -> fetchPatients(token, res)
      [] fn = "addPatient"    -> addPatient(token, res)
      [] fn = "updatePatient" -> updatePatient(token, res)
      [] fn = "deletePatient" -> deletePatient(token, res)

\* The tokens a caller passes: the empty one, or one the service issued
ApiTokens == {"", "tok_doc"}

NoCall == [fn |-> "none", token |-> "", res |-> NoResponse, result |-> Thrown("")]

\* One call of the service, run to its end against the response it meets
ApiCall(fn, token, res) ==
    /\ fn \in {"loginUser", "registerUser"} => token = ""
    /\ api' = [fn |-> fn, token |-> token, res |-> res, result |-> ApiResult(fn, token, res)]
    /\ UNCHANGED <<appVars, scriptVars, localVars, viewVars>>

NextApi == \E fn \in ApiFunctions, token \in ApiTokens, res \in Responses : ApiCall(fn, token, res)

----------------------------------------------------------------------------
(* The client as a whole *)

Init ==
    /\ localStorage = [token |-> Null, user |-> Null]
    /\ auth = [user |-> Null, token |-> Null, isLoading |-> FALSE]
    /\ route = "/login"
    /\ dash = DashInit
    /\ modal = ModalInit
    /\ authNet = <<>>
    /\ net = <<>>
    /\ store = <<>>
    /\ nextId = 1
    /\ ev = NoEvent
    /\ hms = HmsInit
    /\ hmsNet = <<>>
    /\ hmsEv = NoEvent
    /\ hmsLocal = HmsLocalInit
    /\ hmsLocalEv = NoLocalEvent
    /\ view = ViewInit
    /\ api = NoCall

Next ==
    \/ \E acct \in Accounts : Login(acct)
    \/ \E acct \in Accounts : Register(acct)
    \/ \E i \in 1..Len(authNet) : AuthResolve(i)
    \/ \E i \in 1..Len(authNet) : AuthReject(i)
    \/ HandleLogout
    \/ Reload
    \/ \E r \in Routes : Navigate(r)
    \/ \E i \in 1..Len(net) : FetchPatientsSettle(i)
    \/ \E p \in SeqToSet(dash.patients), confirmed \in BOOLEAN : HandleDelete(p, confirmed)
    \/ \E i \in 1..Len(net) : HandleDeleteSettle(i)
    \/ HandleAdd
    \/ \E p \in SeqToSet(dash.patients) : HandleEdit(p)
    \/ OnClose
    \/ \E v \in FieldValues : HandleChange(v)
    \/ HandleSubmit
    \/ \E i \in 1..Len(net) : HandleSubmitSettle(i)
    \/ \E i \in 1..Len(net) : ServerHandle(i)

Spec == Init /\ [][Next]_vars

\* The session alone, with localStorage writes that can fail: the AuthProvider
\* operations, the routes and the reload
NextSession ==
    \/ \E acct \in Accounts : Login(acct)
    \/ \E acct \in Accounts : Register(acct)
    \/ \E i \in 1..Len(authNet) : AuthResolve(i)
    \/ \E i \in 1..Len(authNet) : AuthResolveStorageFailure(i)
    \/ \E i \in 1..Len(authNet) : AuthReject(i)
    \/ HandleLogout
    \/ Reload
    \/ \E r \in Routes : Navigate(r)

SpecSession == Init /\ [][NextSession]_vars

\* script.js alone
SpecScript == Init /\ [][NextScript]_vars

\* The localStorage client alone
SpecLocal == Init /\ [][NextLocal]_vars

\* The rendering of a cache under a search term
SpecView == Init /\ [][NextView]_vars

\* The calls of the api service
SpecApi == Init /\ [][NextApi]_vars

\* The record store holding its first n records
StoredRecords(n) == [k \in 1..n |-> [id |-> k, name |-> CHOOSE x \in Names : TRUE]]

\* A doctor's session restored at "/" over a store that already holds records:
\* the Dashboard has mounted and its first list request is on its way
InitRefresh ==
    /\ localStorage = [token |-> TokenOf("doc"), user |-> Stringify("doc")]
    /\ auth = [user |-> "doc", token |-> TokenOf("doc"), isLoading |-> FALSE]
    /\ route = "/"
    /\ dash = [DashInit EXCEPT !.lastIssued = Pending]
    /\ modal = ModalInit
    /\ authNet = <<>>
    /\ net = <<Request("list", TokenOf("doc"), 0, "")>>
    /\ \E n \in 0..MaxRecords : store = StoredRecords(n) /\ nextId = n + 1
    /\ ev = NoEvent
    /\ hms = HmsInit
    /\ hmsNet = <<>>
    /\ hmsEv = NoEvent
    /\ hmsLocal = HmsLocalInit
    /\ hmsLocalEv = NoLocalEvent
    /\ view = ViewInit
    /\ api = NoCall

\* The list fetches of the Dashboard and what sets them off: mounting (after a
\* reload, a login, a route change) and a delete that succeeded
NextRefresh ==
    \/ Reload
    \/ \E acct \in Accounts : Login(acct)
    \/ \E i \in 1..Len(authNet) : AuthResolve(i)
    \/ HandleLogout
    \/ \E r \in {"/login", "/"} : Navigate(r)
    \/ \E i \in 1..Len(net) : FetchPatientsSettle(i)
    \/ \E p \in SeqToSet(dash.patients), confirmed \in BOOLEAN : HandleDelete(p, confirmed)
    \/ \E i \in 1..Len(net) : HandleDeleteSettle(i)
    \/ \E i \in 1..Len(net) : ServerHandle(i)

SpecRefresh == InitRefresh /\ [][NextRefresh]_vars

\* What the user types into the name field of the form
DraftValues == {"", "a", "b"}

\* The patient form opened on a cached record over the same start: typing,
\* cancelling, saving, and the list fetches that follow a save
NextDraft ==
    \/ \E i \in 1..Len(net) : FetchPatientsSettle(i)
    \/ \E p \in SeqToSet(dash.patients) : HandleEdit(p)
    \/ OnClose
    \/ \E v \in DraftValues : HandleChange(v)
    \/ HandleSubmit
    \/ \E i \in 1..Len(net) : HandleSubmitSettle(i)
    \/ \E i \in 1..Len(net) : ServerHandle(i)
    \/ HandleLogout

SpecDraft == InitRefresh /\ [][NextDraft]_vars

\* The same session over a store that holds nothing yet
InitCreate == InitRefresh /\ store = <<>>

\* Adding records through the form, the list fetches, and confirmed deletes
NextCreate ==
    \/ \E i \in 1..Len(net) : FetchPatientsSettle(i)
    \/ HandleAdd
    \/ \E v \in Names : HandleChange(v)
    \/ HandleSubmit
    \/ \E i \in 1..Len(net) : HandleSubmitSettle(i)
    \/ \E p \in SeqToSet(dash.patients) : HandleDelete(p, TRUE)
    \/ \E i \in 1..Len(net) : HandleDeleteSettle(i)
    \/ \E i \in 1..Len(net) : ServerHandle(i)

SpecCreate == InitCreate /\ [][NextCreate]_vars

----------------------------------------------------------------------------
(* Properties *)

\* The policy table of the design: role -> operations allowed
ReferencePolicy(role) ==
    CASE role = "user"   -> {"view"}
      [] role = "doctor" -> {"view", "create", "edit", "delete"}
      [] OTHER           -> {}

MutationOps == {"handleSubmit", "handleDelete"}

\* How a mutation request can fail
MutationFailures == {"Unauthorized", "NotFound", "ValidationFailed", "Unreachable"}

ListCount(n) == Cardinality({i \in 1..Len(n) : n[i].kind = "list"})

\* C1: in every reachable state of the session isAuthenticated is true exactly
\* when both the token and the user are present, and the session holds no
\* field of its own for it (user, token and isLoading are all it stores).
C1_IsAuthenticatedDerived ==
    /\ DOMAIN auth = {"user", "token", "isLoading"}
    /\ isAuthenticated <=> (auth.token \in Tokens /\ auth.user \in Accounts)

\* A restored session with a token and no user, which is not authenticated
C1_Witness ==
    /\ ev.op = "restore"
    /\ auth.token \in Tokens
    /\ auth.user = Null
    /\ ~isAuthenticated

\* C2: a partial session is never observable: token and user are both present
\* or both absent, in memory and in the two localStorage entries.
C2_NoPartialSession ==
    /\ (auth.token = Null) <=> (auth.user = Null)
    /\ (localStorage.token = Null) <=> (localStorage.user = Null)

\* C3: a create, update or delete attempted under a session whose role the
\* policy does not allow the operation ends as PermissionDenied with no request
\* sent.
C3_DeniedBeforeRequest ==
    LET needed == IF ev.op = "handleDelete" THEN {"delete"} ELSE {"create", "edit"}
    IN  (/\ ev.op \in MutationOps
         /\ ev.outcome \in {"inFlight", "noToken", "declined", "PermissionDenied"}
         /\ needed \cap ReferencePolicy(Role(auth.user)) = {})
        => (ev.outcome = "PermissionDenied" /\ ev.sent = <<>>)

\* C4: the client grants 'user' exactly {view} and 'doctor' exactly {view,
\* create, edit, delete}: in the Dashboard, and in script.js for the role of
\* its session.
C4_ClientPolicy ==
    /\ \A u \in Accounts : DashboardGranted(u) = ReferencePolicy(Role(u))
    /\ \A role \in {"user", "doctor"} :
         hms.userRole = role => ScriptGranted(role) = ReferencePolicy(role)

\* C5: once a list, create, update or delete request has been rejected as
\* Unauthorized and the rejection has reached its handler, token and user are
\* cleared from memory and from localStorage and isAuthenticated is false.
C5_UnauthorizedDestroysSession ==
    ev.outcome = "Unauthorized"
    => /\ ~isAuthenticated
       /\ auth.token = Null /\ auth.user = Null
       /\ localStorage = [token |-> Null, user |-> Null]

\* C6: the step in which a list fetch fails leaves the cached patients as they
\* were and leaves the error flag set.
C6_FailedRefreshKeepsCache ==
    [][(ev'.op = "fetchPatients" /\ ev'.outcome # "ok")
       => (dash'.patients = dash.patients /\ dash'.error = ConnectError)]_vars

\* A list fetch has failed over a cache that holds a record
C6_Witness ==
    /\ ev.op = "fetchPatients"
    /\ ev.outcome \in {"Unauthorized", "Unreachable"}
    /\ dash.patients # <<>>
    /\ dash.error = ConnectError

\* C7: the step in which a list fetch succeeds makes the cache the returned
\* sequence and leaves the error flag cleared.
C7_SuccessReplacesAndClears ==
    [][(ev'.op = "fetchPatients" /\ ev'.outcome = "ok")
       => /\ \E i \in 1..Len(net) : /\ net[i].kind = "list"
                                    /\ net[i].resp.status = "ok"
                                    /\ dash'.patients = net[i].resp.body
          /\ dash'.error = ""]_vars

\* C8: a list request is added by a mutation that succeeded (or by the
\* Dashboard coming up, on a route change or a reload) and by nothing else; a mutation that succeeded issues
\* it; a mutation that failed issues none, leaves the cache as it was and shows
\* the failure to the user (an alert, or the message in the open form).
C8_RefetchAfterSuccessOnly ==
    [][/\ ListCount(net') > ListCount(net)
          => \/ ev'.op \in MutationOps /\ ev'.outcome = "ok"
             \/ ~Mounted /\ Mounted'
             \/ ev'.op = "restore" /\ Mounted'
       /\ (ev'.op \in MutationOps /\ ev'.outcome = "ok") => ev'.sent = <<"list">>
       /\ (ev'.op \in MutationOps /\ ev'.outcome \in MutationFailures)
          => /\ ev'.sent = <<>>
             /\ dash'.patients = dash.patients
             /\ ev'.shown \in {"alert", "modal"}]_vars

\* C9: at most one create or update request is outstanding at any time.
C9_OneSubmitOutstanding ==
    Cardinality({i \in 1..Len(net) : net[i].kind \in {"create", "update"}}) <= 1

\* C10: at most one delete request is outstanding for a given record id.
C10_OneDeletePerId ==
    \A i, j \in 1..Len(net) :
        (net[i].kind = "delete" /\ net[j].kind = "delete" /\ net[i].id = net[j].id)
        => i = j

\* C11: an update aimed at an id that is no longer in the store is never
\* reported as a success: a form submission that tells the user "updated
\* successfully" found the record it replaced.
C11_UpdateOfMissingFails ==
    [][(/\ hmsLocalEv'.op = "handleFormSubmission"
        /\ hmsLocalEv'.outcome = "updated successfully"
        /\ hmsLocal.patientId # NoId
        /\ hmsLocal'.patientId = NoId)
       => HasId(hmsLocal.patients, hmsLocal.patientId)]_vars

\* C12: a create never uses an id made by the client: the create request of
\* the React client carries no id, and the localStorage client hands no
\* record with an id of its own making to the store.
C12_NoClientChosenId ==
    /\ \A k \in 1..Len(net) : net[k].kind = "create" => net[k].id = 0
    /\ hmsLocalEv.outcome = "added successfully" =>
          \A k \in 1..Len(hmsLocalEv.record) : hmsLocalEv.record[k].id = NoId


\* C13 as stated: when the list fetch that followed an accepted create settles
\* successfully, the cache holds the created record (the submitted name, the
\* id the store assigned).
C13_RefreshShowsCreated ==
    [][\A i \in 1..Len(net) :
          (/\ net[i].kind = "list"
           /\ net[i].cause # <<>>
           /\ net[i].resp.status = "ok"
           /\ ev'.op = "fetchPatients"
           /\ ev'.outcome = "ok"
           /\ net' = RemoveAt(Overtaken(net, i), i))
          => net[i].cause[1] \in SeqToSet(dash'.patients)]_vars

\* C13 amended: when the list fetch that followed an accepted create settles
\* successfully, the cache is the list the store returned, and it holds the
\* created record unless the store no longer holds that record as created.
C13_RefreshShowsCreatedUnlessGone ==
    [][\A i \in 1..Len(net) :
          (/\ net[i].kind = "list"
           /\ net[i].cause # <<>>
           /\ net[i].resp.status = "ok"
           /\ ev'.op = "fetchPatients"
           /\ ev'.outcome = "ok"
           /\ net' = RemoveAt(Overtaken(net, i), i))
          => /\ dash'.patients = net[i].resp.body
             /\ \/ net[i].cause[1] \in SeqToSet(dash'.patients)
                \/ net[i].cause[1] \notin SeqToSet(store)]_vars

\* A list fetch has settled over a store that was empty at the start: the
\* cache holds the record the session created
C13_Witness ==
    /\ ev.op = "fetchPatients"
    /\ ev.outcome = "ok"
    /\ dash.patients # <<>>
    /\ dash.patients = store
    /\ nextId > 1

\* The delete requests among the requests in flight
DeleteRequests(n) == {k \in 1..Len(n) : n[k].kind = "delete"}

\* C14: a delete request is issued only by a delete click whose confirmation
\* the user accepted; a click whose confirmation is declined sends nothing and
\* leaves the cache and the record store as they were.
C14_DeleteOnlyAfterConfirm ==
    [][/\ (ev'.op = "handleDelete" /\ ev'.outcome = "declined" /\ ev' # ev)
          => (net' = net /\ dash' = dash /\ store' = store)
       /\ Cardinality(DeleteRequests(net')) > Cardinality(DeleteRequests(net))
          => (ev'.op = "handleDelete" /\ ev'.outcome = "inFlight")]_vars

C14_Witness ==
    /\ ev.op = "handleDelete"
    /\ ev.outcome = "declined"
    /\ dash.patients # <<>>
    /\ DeleteRequests(net) = {}

\* C15: the form works on a draft: typing, cancelling, a failed save and a
\* save still in flight leave the cached records as they are; the cache changes
\* only when a list fetch settles successfully (or is dropped whole when the
\* Dashboard is unmounted).
C15_DraftNeverTouchesCache ==
    [][/\ dash'.patients # dash.patients
          => \/ ev'.op = "fetchPatients" /\ ev'.outcome = "ok"
             \/ ~Mounted' /\ dash'.patients = <<>>
       /\ (modal'.formData # modal.formData /\ Mounted')
          => dash'.patients = dash.patients
       /\ (ev'.op = "handleSubmit" /\ ev' # ev /\ Mounted')
          => dash'.patients = dash.patients]_vars

\* The form is open on a cached record, the draft differs from it, and the
\* record is still in the cache as the store gave it
C15_Witness ==
    /\ dash.isModalOpen
    /\ dash.editingPatient # NoPatient
    /\ dash.editingPatient[1] \in SeqToSet(dash.patients)
    /\ modal.formData.name = "b"
    /\ dash.editingPatient[1].name # "b"

\* C16: a list response that arrives after a list request issued later has
\* already completed is discarded: the step in which it settles leaves the
\* cache as the later response left it.
C16_StaleListResponseDiscarded ==
    [][\A i \in 1..Len(net) :
          (/\ net[i].kind = "list"
           /\ net[i].overtaken
           /\ net[i].resp.status = "ok"
           /\ ev'.op = "fetchPatients"
           /\ ev'.outcome = "ok"
           /\ net' = RemoveAt(net, i))
          => dash'.patients = dash.patients]_vars

\* C17: a login or register response that arrives after a newer session
\* transition is discarded: an accepted response settling right after a logout
\* leaves the session and the storage as the logout left them.
C17_LateAuthResponseDiscarded ==
    [][(ev.op = "logout" /\ ev'.op = "auth" /\ ev'.outcome = "ok")
       => (auth'.user = Null /\ auth'.token = Null /\ localStorage' = localStorage)]_vars

\* C18: once logout has completed, the identity and the credential are absent
\* both from memory and from storage, and the session is not authenticated.
C18_LogoutClearsEverything ==
    ev.op = "logout" =>
        /\ auth.user = Null
        /\ auth.token = Null
        /\ localStorage.token = Null
        /\ localStorage.user = Null
        /\ ~isAuthenticated

C18_Witness == ev.op = "logout" /\ route = "/login" /\ ~Mounted

\* C19: logout is idempotent: applied to a state without a session it changes
\* nothing, and applied twice it yields what one application yields.
C19_LogoutIdempotent ==
    /\ LoggedOut(LoggedOut(auth)) = LoggedOut(auth)
    /\ StorageAfterLogout(StorageAfterLogout(localStorage)) = StorageAfterLogout(localStorage)
    /\ (auth.user = Null /\ auth.token = Null) => LoggedOut(auth) = auth
    /\ (localStorage.user = Null /\ localStorage.token = Null)
          => StorageAfterLogout(localStorage) = localStorage
    /\ ev.op = "logout" =>
          /\ LoggedOut(auth) = auth
          /\ StorageAfterLogout(localStorage) = localStorage

C19_Witness ==
    /\ ev.op = "logout"
    /\ LoggedOut(auth) = auth
    /\ StorageAfterLogout(localStorage) = localStorage

\* C20: when the application starts with a storage entry missing, the restored
\* session holds neither a token nor a user and is not authenticated.
C20_IncompleteStorageRestoresNothing ==
    (ev.op = "restore" /\ (localStorage.token = Null \/ localStorage.user = Null))
        => (auth.token = Null /\ auth.user = Null /\ ~isAuthenticated)

\* C21: when a storage write fails during login or register the attempt fails
\* as a whole: after it neither the token nor the user is held in memory or in
\* localStorage, and the session is not authenticated.
C21_StorageFailureFailsLogin ==
    (ev.op = "auth" /\ ev.outcome = "StorageError")
        => /\ ~isAuthenticated
           /\ auth.token = Null /\ auth.user = Null
           /\ localStorage.token = Null /\ localStorage.user = Null

\* C22: a reload right after an accepted login or register restores the same
\* user and the same token from localStorage, and the session is authenticated.
C22_SessionSurvivesReload ==
    [][(ev.op = "auth" /\ ev.outcome = "ok" /\ ev'.op = "restore")
       => /\ auth'.user = auth.user
          /\ auth'.token = auth.token
          /\ isAuthenticated']_vars

\* The application has been reloaded and the session of the login is back
C22_Witness ==
    /\ ev.op = "restore"
    /\ isAuthenticated
    /\ auth.user \in Accounts
    /\ auth.token = TokenOf(auth.user)

\* C23: for each role of the policy the Dashboard gate, the script.js table
\* and the table of the localStorage client grant the same operations as the
\* reference table (seen at the role of the localStorage client's session).
C23_PolicyPointsAgree ==
    \A u \in Accounts :
        hmsLocal.role = Role(u)
        => /\ DashboardGranted(u) = ReferencePolicy(Role(u))
           /\ ScriptGranted(Role(u)) = ReferencePolicy(Role(u))
           /\ LocalGranted(Role(u)) = ReferencePolicy(Role(u))
           /\ ScriptGranted(Role(u)) = DashboardGranted(u)
           /\ LocalGranted(Role(u)) = ScriptGranted(Role(u))

\* C24: every list, create, update and delete request carries a credential,
\* and it is the token of the session current when the request is sent: for a
\* request a handler or a mounting Dashboard sends, and for the list request
\* that fetchPatients() sends once a create, update or delete has succeeded.
C24_RequestsCarryCurrentToken ==
    [][/\ \A k \in 1..Len(net') : Truthy(net'[k].tok)
       /\ (ev'.outcome = "inFlight" \/ (~Mounted /\ Mounted'))
          => /\ Len(net') > 0
             /\ net'[Len(net')].resp = Pending
             /\ net'[Len(net')].tok = auth'.token
       /\ \A i \in 1..Len(net) :
             (/\ net[i].kind \in {"create", "update", "delete"}
              /\ net[i].resp.status = "ok"
              /\ ev'.op \in MutationOps
              /\ ev'.outcome = "ok"
              /\ ev'.sent = <<"list">>
              /\ SubSeq(net', 1, Len(net) - 1) = RemoveAt(net, i))
             => net[i].tok = auth'.token]_vars

\* C25: a failed list fetch surfaces an error state that tells a rejected
\* credential from a network failure: after an Unauthorized answer the error
\* shown is not the one shown when the server could not be reached.
C25_FailureKindsDistinguished ==
    (ev.op = "fetchPatients" /\ ev.outcome = "Unauthorized")
        => (dash.error # "" /\ dash.error # ConnectError)

\* C26: every failure of a list, create, update or delete call is shown to the
\* user by the component that started it, as long as that component exists:
\* the banner of the Dashboard, an alert, or the message in the open form.
C26_EveryFailureSurfaces ==
    (/\ ev.op \in {"fetchPatients"} \cup MutationOps
     /\ ev.outcome \in MutationFailures
     /\ ev.shown # "unmounted")
        => ev.shown \in {"banner", "alert", "modal"}

\* The filter of the specification: a record is kept when the query, compared
\* without regard to case, is part of its name, of its id or of its gender
ReferenceFilter(patients, query) ==
    LET keep(p) == \/ includes(toLowerCase(p.name), toLowerCase(query))
                   \/ includes(toLowerCase(p.id), toLowerCase(query))
                   \/ includes(toLowerCase(p.gender), toLowerCase(query))
    IN Filter(patients, keep)

\* C27: with the empty search term the rows shown are all the cached records,
\* in the order of the cache (in the Dashboard and in script.js).
C27_EmptyQueryShowsAll ==
    view.searchTerm = <<>>
        => /\ view.screen.rows = view.patients
           /\ view.screen.scriptRows = view.patients

\* The empty search term over a cache of two different records or more
C27_Witness ==
    /\ view.searchTerm = <<>>
    /\ Len(view.patients) >= 2
    /\ view.patients[1] # view.patients[2]
    /\ view.screen.rows = view.patients

\* C28: the rows shown are exactly the cached records that the query matches,
\* without regard to case, in the name, the id or the gender, in cache order
\* (in the Dashboard and in script.js), and the cache is what it was.
C28_FilterMatchesReference ==
    /\ view.screen.rows = ReferenceFilter(view.patients, view.searchTerm)
    /\ view.screen.scriptRows = ReferenceFilter(view.patients, view.searchTerm)
    /\ view.screen.total = Len(view.patients)

\* C29: over an empty cache the count is 0, the divisor of the means is 1 and
\* both means are the number 0.0.
C29_EmptyCacheAggregates ==
    view.patients = <<>>
        => /\ view.screen.total = 0
           /\ Divisor(view.patients) = 1
           /\ view.screen.avgGlucose # NaN
           /\ view.screen.avgAge # NaN
           /\ view.screen.avgGlucose = <<0>>
           /\ view.screen.avgAge = <<0>>

\* The cache has been emptied again while a search term is set
C29_Witness ==
    /\ view.patients = <<>>
    /\ view.searchTerm # <<>>
    /\ view.screen.total = 0
    /\ view.screen.avgAge = <<0>>

\* C30: the count of prior strokes is a count of stroke = 1 alone, wherever it
\* is shown: the header card and the 'Stroke' slice of the chart both count
\* exactly the records with stroke = 1, whatever their stroke_prediction.
C30_StrokeCountsSeparate ==
    LET prior == Cardinality({k \in 1..Len(view.patients) : view.patients[k].stroke = 1})
    IN  /\ view.screen.observed = prior
        /\ view.screen.strokeStats.Stroke = prior
        /\ view.screen.strokeStats.NoStroke = Len(view.patients) - prior

\* C31: each of the six api calls fails with an error whenever the response is
\* not ok, whether or not the error body can be parsed, and returns no value
\* in that case.
C31_NotOkAlwaysThrows ==
    (api.fn \in ApiFunctions /\ api.res.arrived /\ ~api.res.ok)
        => (api.result.threw /\ api.result.value = <<>>)

\* A call has met a response that is not ok and whose body is not JSON
C31_Witness ==
    /\ api.fn = "deletePatient"
    /\ api.token # ""
    /\ api.res.arrived
    /\ ~api.res.ok
    /\ JsonRejects(api.res.body)
    /\ api.result = Thrown("Failed to delete patient")

\* C32: whenever a token and a user are both present, in memory or in
\* localStorage, they were issued together by one login or register response:
\* the token is the one issued for that user.
C32_TokenPairedWithItsUser ==
    /\ (Truthy(auth.token) /\ Truthy(auth.user))
          => (auth.user \in Accounts /\ auth.token = TokenOf(auth.user))
    /\ (Truthy(localStorage.token) /\ Truthy(localStorage.user))
          => /\ Parse(localStorage.user) \in Accounts
             /\ localStorage.token = TokenOf(Parse(localStorage.user))

\* C33: once every outstanding request has settled and the list fetch issued
\* last has succeeded, the cache is the response of that fetch, in whatever
\* order the responses of concurrent refreshes arrived.
C33_CacheIsLatestIssuedResponse ==
    (Mounted /\ net = <<>> /\ dash.lastIssued.status = "ok")
        => dash.patients = dash.lastIssued.body

\* C34: a login or register attempt that the credential service rejects leaves
\* user, token and both localStorage entries as they were: neither the step
\* that starts an attempt nor the step in which its rejection arrives changes
\* them, and isLoading is false once the rejection has arrived.
C34_RejectedAttemptChangesNothing ==
    [][/\ Len(authNet') > Len(authNet)
          => /\ auth'.user = auth.user
             /\ auth'.token = auth.token
             /\ localStorage' = localStorage
       /\ (ev'.op = "auth" /\ ev'.outcome = "rejected" /\ Len(authNet') < Len(authNet))
          => /\ auth'.user = auth.user
             /\ auth'.token = auth.token
             /\ localStorage' = localStorage
             /\ ~auth'.isLoading]_vars

\* An attempt has been rejected while a session was held
C34_Witness ==
    /\ ev.op = "auth"
    /\ ev.outcome = "rejected"
    /\ auth.user \in Accounts
    /\ auth.token = TokenOf(auth.user)
    /\ localStorage.token = auth.token
    /\ ~auth.isLoading

\* C35: the patient form closes as the result of a submit only if a create or
\* update request of that Dashboard was sent and succeeded; a submit always
\* sends its request and leaves the form open while it is in flight, and a
\* request that fails leaves the form as it was.
C35_FormClosesOnlyOnSuccess ==
    [][/\ (ev'.op = "handleSubmit" /\ Mounted /\ Mounted'
           /\ dash.isModalOpen /\ ~dash'.isModalOpen)
          => /\ ev'.outcome = "ok"
             /\ \E i \in 1..Len(net) :
                   /\ net[i].kind \in {"create", "update"}
                   /\ net[i].live
                   /\ net[i].resp.status = "ok"
                   /\ SubSeq(net', 1, Len(net) - 1) = RemoveAt(net, i)
       /\ (ev'.op = "handleSubmit" /\ ev'.outcome \in MutationFailures)
          => dash'.isModalOpen = dash.isModalOpen
       /\ (ev'.op = "handleSubmit" /\ ev'.outcome \notin MutationFailures \cup {"ok"})
          => /\ ev'.sent \in {<<"create">>, <<"update">>}
             /\ net' = Append(net, net'[Len(net')])
             /\ dash'.isModalOpen]_vars

\* A save has succeeded and has closed the form; the refresh is on its way
C35_Witness ==
    /\ ev.op = "handleSubmit"
    /\ ev.outcome = "ok"
    /\ ev.sent = <<"list">>
    /\ Mounted
    /\ ~dash.isModalOpen
    /\ ~modal.loading

\* C36: the Dashboard is rendered, and holds state or requests of its own,
\* only in states where isAuthenticated is true; in every state where
\* isAuthenticated is false and isLoading is false the root route redirects to
\* the login route, so the location is never left at the root.
C36_DashboardOnlyWhenAuthenticated ==
    /\ DashboardShown(auth, route) => isAuthenticated
    /\ (dash # DashInit \/ \E k \in 1..Len(net) : net[k].live) => isAuthenticated
    /\ (~isAuthenticated /\ ~auth.isLoading)
          => /\ RedirectedRoute(auth, "/") = "/login"
             /\ route # "/"
             /\ ~Mounted

\* A reload at the root with a token and no user in localStorage: the restored
\* session is not authenticated and the location is the login route
C36_Witness ==
    /\ ev.op = "restore"
    /\ localStorage.token # Null
    /\ ~isAuthenticated
    /\ ~auth.isLoading
    /\ route = "/login"
    /\ dash = DashInit

\* C37: the 'Stroke' and 'No Stroke' counts partition the cache: every cached
\* record is counted in exactly one of the two, and the two counts sum to the
\* total patient count.
C37_StrokeSlicesPartitionCache ==
    /\ \A k \in 1..Len(view.patients) :
          LET one == strokeStats(<<view.patients[k]>>)
          IN  one.Stroke + one.NoStroke = 1
    /\ view.screen.strokeStats.Stroke + view.screen.strokeStats.NoStroke = view.screen.total

====
